---- MODULE Spec2Model ----
(***************************************************************************)
(* Rack Layout Engine of henryj57/egineering_project (src/rack_arranger.py) *)
(*                                                                         *)
(* The heap holds the RackItem objects; a RackLayout holds references into *)
(* the heap, as a Python list of objects does.  Weights are counted in     *)
(* quarter pounds, so that the fillers' 0.25 lb is the integer 1.  Python's *)
(* None and 0 are both falsy: a numeric field that is None is modelled by  *)
(* 0, which `x or d` treats the same way.                                  *)
(***************************************************************************)
EXTENDS Integers, Sequences, FiniteSets, TLC

VARIABLES heap,      \* Seq of RackItem records: the objects, by reference
          layouts,   \* Seq of RackLayout records returned so far
          log,       \* Seq of call records: arguments and the result as returned
          expanded,  \* Seq of expand_quantities call records
          splits,    \* Seq of splitter call records
          pipe,      \* the rack generation pipeline of a front end: where it is, its data
          runs,      \* the two arrange_rack runs of a split, when they run side by side
          sizing     \* the enclosure capacities chosen for the groups of a split

vars == <<heap, layouts, log, expanded, splits, pipe, runs, sizing>>

----------------------------------------------------------------------------
(* Bounds of the model *)

MaxItems == 3        \* equipment items given to one arrange_rack call
MaxHeight == 2       \* rack_units of an equipment item
MaxWeight == 1       \* weight of an equipment item (quarter pounds)
MaxRack == 10        \* largest rack_size_u
MaxCalls == 2        \* arrange_rack calls in SpecReuse
MaxQuantity == 2     \* largest quantity of an item given to expand_quantities
MaxDenseItems == 6   \* equipment items of a call in SpecDense
MaxDenseRack == 14   \* largest rack_size_u in SpecDense
MaxSparseItems == 22 \* equipment items of a call in SpecSparse
MaxSparseRack == 62  \* largest rack_size_u in SpecSparse

(* Program constants *)

vent_interval == 3       \* rack_arranger.py:206
TightBtu == 200          \* rack_arranger.py:217
SparseBtu == 100         \* rack_arranger.py:332
TightPercent == 85       \* rack_arranger.py:178  (fill_ratio >= 0.85)
ModeratePercent == 50    \* rack_arranger.py:181  (fill_ratio >= 0.5)

None == "None"

Max(a, b) == IF a >= b THEN a ELSE b
Min(a, b) == IF a <= b THEN a ELSE b

\* Python's `v or d` on a number: 0 (and None, modelled by 0) is falsy
PyOr(v, d) == IF v = 0 THEN d ELSE v

----------------------------------------------------------------------------
(* Item model *)

RackItem(item_type, name, brand, model, rack_units, weight, btu, quantity, subsystem) ==
    [item_type |-> item_type, name |-> name, brand |-> brand, model |-> model,
     rack_units |-> rack_units, weight |-> weight, btu |-> btu, position_u |-> 0,
     front_image_url |-> None, connections |-> None,
     quantity |-> quantity, subsystem |-> subsystem]

is_equipment(item) == item.item_type = "equipment"

create_vent(units) ==
    IF units = 2
    THEN RackItem("vent_2u", "2U Vent Panel", "", "", 2, 2, 0, 1, "")
    ELSE RackItem("vent_1u", "1U Vent Panel", "", "", 1, 1, 0, 1, "")

create_blank(units) ==
    RackItem("blank_1u", ToString(units) \o "U Blank Panel", "", "", units, units, 0, 1, "")

----------------------------------------------------------------------------
(* Layout model: the derived aggregates, computed from the items *)

RECURSIVE SumUnits(_, _, _)
\* sum of rack_units over the items of refs (a Seq of references) that satisfy
\* the filter: "all", "equipment" or "filler"
SumUnits(h, refs, which) ==
    IF refs = <<>> THEN 0
    ELSE LET it == h[Head(refs)]
             take == \/ which = "all"
                     \/ which = "equipment" /\ is_equipment(it)
                     \/ which = "filler" /\ ~is_equipment(it)
         IN (IF take THEN it.rack_units ELSE 0) + SumUnits(h, Tail(refs), which)

total_equipment_u(h, layout) == SumUnits(h, layout.items, "equipment")
total_vent_u(h, layout) == SumUnits(h, layout.items, "filler")
total_used_u(h, layout) == SumUnits(h, layout.items, "all")
remaining_u_clamped(h, layout) == Max(0, layout.rack_size_u - total_used_u(h, layout))
remaining_u(h, layout) == layout.rack_size_u - total_used_u(h, layout)

----------------------------------------------------------------------------
(* Placement engine.  The strategies return the sequence final_items as    *)
(* placements [ref, item]: ref is the reference of an equipment object of  *)
(* the heap (0 for a filler the strategy has just created) and item is the *)
(* object's record with the position_u the strategy has assigned to it.    *)

\* key=lambda x: (x.weight or 0)
SortKeyByPosition(item) == PyOr(item.weight, 0) + item.position_u
SortKey(item) == PyOr(item.weight, 0)

RECURSIVE InsertByKey(_, _, _)
\* r goes behind every reference whose key is at least r's: the sort is
\* stable and descending (sorted(..., reverse=True) keeps equal keys in order)
InsertByKey(h, s, r) ==
    IF s = <<>> THEN <<r>>
    ELSE IF SortKey(h[Head(s)]) >= SortKey(h[r])
         THEN <<Head(s)>> \o InsertByKey(h, Tail(s), r)
         ELSE <<r>> \o s

RECURSIVE SortFrom(_, _, _)
SortFrom(h, equipment, acc) ==
    IF equipment = <<>> THEN acc
    ELSE SortFrom(h, Tail(equipment), InsertByKey(h, acc, Head(equipment)))

sorted_equipment_but_last(h, equipment) ==
    LET s == SortFrom(h, equipment, <<>>)
    IN SubSeq(s, 1, Len(s) - 1)

sorted_equipment_ascending(h, equipment) ==
    LET s == SortFrom(h, equipment, <<>>)
    IN [k \in 1..Len(s) |-> s[Len(s) + 1 - k]]
sorted_equipment(h, equipment) == SortFrom(h, equipment, <<>>)

\* item.position_u = current_position; final_items.append(item)
PlaceEquipment(h, r, current_position) ==
    [ref |-> r, item |-> [h[r] EXCEPT !.position_u = current_position]]

PlaceFillerAbove(filler, current_position) ==
    [ref |-> 0, item |-> [filler EXCEPT !.position_u = current_position + 1]]

\* vent.position_u = current_position; final_items.append(vent)
PlaceFiller(filler, current_position) ==
    [ref |-> 0, item |-> [filler EXCEPT !.position_u = current_position]]

\* current_position += item.rack_units
AdvanceOneUnit(current_position, item) == current_position + 1
Advance(current_position, item) == current_position + item.rack_units

RECURSIVE arrange_no_space(_, _, _, _)
\* the branch `remaining_space <= 0 or num_equipment_items == 0` of arrange_rack;
\* acc is final_items
arrange_no_space(h, equipment, current_position, acc) ==
    IF equipment = <<>> THEN acc
    ELSE LET r == Head(equipment)
         IN arrange_no_space(h, Tail(equipment), Advance(current_position, h[r]),
                             Append(acc, PlaceEquipment(h, r, current_position)))

----------------------------------------------------------------------------
(* Tight strategy *)

min_vents_needed(num_items) == Max(1, (num_items - 1) \div vent_interval)

HotPositionsAll(h, equipment) ==
    {i \in 0..(Len(equipment) - 1) : PyOr(h[equipment[i + 1]].btu, 0) > TightBtu}

HotPositionsFromSecond(h, equipment) ==
    {i \in 1..(Len(equipment) - 2) : PyOr(h[equipment[i + 1]].btu, 0) > TightBtu}

\* positions after high-BTU items, the last item skipped (0-based indices)
HotPositions(h, equipment) ==
    {i \in 0..(Len(equipment) - 2) : PyOr(h[equipment[i + 1]].btu, 0) > TightBtu}

RECURSIVE IntervalVents(_, _, _, _, _)
\* the loop `for i in range(num_items - 1)` that fills in vents at intervals
IntervalVents(i, num_items, items_since_vent, vent_positions, vents_to_add) ==
    IF i >= num_items - 1 THEN vent_positions
    ELSE LET since1 == items_since_vent + 1
             add == /\ since1 >= vent_interval
                    /\ i \notin vent_positions
                    /\ Cardinality(vent_positions) < vents_to_add
             vp1 == IF add THEN vent_positions \cup {i} ELSE vent_positions
             since2 == IF add THEN 0 ELSE since1
             since3 == IF i \in vp1 THEN 0 ELSE since2
         IN IntervalVents(i + 1, num_items, since3, vp1, vents_to_add)

RECURSIVE BuildTight(_, _, _, _, _, _)
BuildTight(h, equipment, i, vent_positions, current_position, acc) ==
    IF i >= Len(equipment) THEN acc
    ELSE LET r == equipment[i + 1]
             acc1 == Append(acc, PlaceEquipment(h, r, current_position))
             pos1 == Advance(current_position, h[r])
         IN IF i \in vent_positions
            THEN BuildTight(h, equipment, i + 1, vent_positions, pos1 + 1,
                            Append(acc1, PlaceFiller(create_vent(1), pos1)))
            ELSE BuildTight(h, equipment, i + 1, vent_positions, pos1, acc1)

arrange_tight_rack(h, equipment, remaining_space, bottom_buffer_u) ==
    LET num_items == Len(equipment)
        vents_to_add == Max(remaining_space, min_vents_needed(num_items))
        vent_positions == IntervalVents(0, num_items, 0, HotPositions(h, equipment),
                                        vents_to_add)
    IN BuildTight(h, equipment, 0, vent_positions, bottom_buffer_u + 1, <<>>)

----------------------------------------------------------------------------
(* Moderate strategy *)

RECURSIVE BlanksForTop(_, _, _)
\* `while blanks_for_top > 0`
BlanksForTop(blanks_for_top, current_position, acc) ==
    IF blanks_for_top <= 0 THEN acc
    ELSE BlanksForTop(blanks_for_top - 1, current_position + 1,
                      Append(acc, PlaceFiller(create_blank(1), current_position)))

RECURSIVE BuildModerate(_, _, _, _, _, _, _)
BuildModerate(h, equipment, i, vents_to_use, blanks_for_top, current_position, acc) ==
    IF i >= Len(equipment) THEN BlanksForTop(blanks_for_top, current_position, acc)
    ELSE LET r == equipment[i + 1]
             acc1 == Append(acc, PlaceEquipment(h, r, current_position))
             pos1 == Advance(current_position, h[r])
         IN IF i < Len(equipment) - 1 /\ vents_to_use > 0
            THEN BuildModerate(h, equipment, i + 1, vents_to_use - 1, blanks_for_top,
                               pos1 + 1, Append(acc1, PlaceFiller(create_vent(1), pos1)))
            ELSE BuildModerate(h, equipment, i + 1, vents_to_use, blanks_for_top,
                               pos1, acc1)

arrange_moderate_rack_uncapped(h, equipment, remaining_space, bottom_buffer_u, rack_size_u) ==
    LET num_items == Len(equipment)
        vents_needed == IF num_items > 1 THEN num_items - 1 ELSE 0
        blanks_for_top == remaining_space - Min(vents_needed, remaining_space)
    IN BuildModerate(h, equipment, 0, vents_needed, blanks_for_top,
                     bottom_buffer_u + 1, <<>>)

arrange_moderate_rack(h, equipment, remaining_space, bottom_buffer_u, rack_size_u) ==
    LET num_items == Len(equipment)
        vents_needed == IF num_items > 1 THEN num_items - 1 ELSE 0
        vents_to_use == Min(vents_needed, remaining_space)
        blanks_for_top == remaining_space - vents_to_use
    IN BuildModerate(h, equipment, 0, vents_to_use, blanks_for_top,
                     bottom_buffer_u + 1, <<>>)

----------------------------------------------------------------------------
(* Sparse strategy *)

\* space_per_slot = available_u / total_slots is a float (IEEE 754 double) and
\* so is i * space_per_slot, which int() truncates.  The product is the
\* rounded i * available_u / total_slots, and truncates to the floor of the
\* exact quotient except where the exact quotient is an integer and the
\* rounded product falls just below it.  FloatShortfall lists these
\* <<i, available_u, total_slots>>: all of them with available_u <= 70 and
\* total_slots <= 26, which is as far as the calls of this module go.
FloatShortfall == {<<11, 30, 22>>, <<11, 60, 22>>, <<13, 30, 26>>, <<13, 60, 26>>}

\* int(i * space_per_slot)
slot_offset(i, total_slots, available_u) ==
    ((i * available_u) \div total_slots)
        - (IF <<i, available_u, total_slots>> \in FloatShortfall THEN 1 ELSE 0)

\* bottom_buffer_u + 1 + int(i * space_per_slot)
ideal_start(i, num_items, available_u, bottom_buffer_u) ==
    bottom_buffer_u + 1 + slot_offset(i, num_items, available_u)

RECURSIVE SpacersTo(_, _, _)
\* `while current_position < ideal_start`: vents near equipment, blanks for
\* larger gaps; the result is the extended final_items
SpacersTo(ideal, current_position, acc) ==
    IF current_position >= ideal THEN acc
    ELSE LET spacer == IF ideal - current_position <= 2
                       THEN create_vent(1) ELSE create_blank(1)
         IN SpacersTo(ideal, current_position + 1,
                      Append(acc, PlaceFiller(spacer, current_position)))

RECURSIVE FillTop(_, _, _)
\* `while current_position <= rack_size_u`
FillTop(rack_size_u, current_position, acc) ==
    IF current_position > rack_size_u THEN acc
    ELSE FillTop(rack_size_u, current_position + 1,
                 Append(acc, PlaceFiller(create_blank(1), current_position)))

thermal_vent_tight_btu(h, equipment, i, current_position, rack_size_u) ==
    /\ i < Len(equipment) - 1
    /\ PyOr(h[equipment[i + 1]].btu, 0) > TightBtu
    /\ current_position < rack_size_u

\* `if i < num_items - 1 and (item.btu or 0) > 100: if current_position < rack_size_u`
thermal_vent(h, equipment, i, current_position, rack_size_u) ==
    /\ i < Len(equipment) - 1
    /\ PyOr(h[equipment[i + 1]].btu, 0) > SparseBtu
    /\ current_position < rack_size_u

RECURSIVE BuildSparse(_, _, _, _, _, _, _)
BuildSparse(h, equipment, i, bottom_buffer_u, rack_size_u, available_u, st) ==
    \* st = [pos |-> current_position, acc |-> final_items]
    IF i >= Len(equipment) THEN FillTop(rack_size_u, st.pos, st.acc)
    ELSE LET r == equipment[i + 1]
             ideal == ideal_start(i, Len(equipment), available_u, bottom_buffer_u)
             pos0 == Max(st.pos, ideal)
             acc0 == SpacersTo(ideal, st.pos, st.acc)
             acc1 == Append(acc0, PlaceEquipment(h, r, pos0))
             pos1 == Advance(pos0, h[r])
             hot == thermal_vent(h, equipment, i, pos1, rack_size_u)
         IN IF hot
            THEN BuildSparse(h, equipment, i + 1, bottom_buffer_u, rack_size_u, available_u,
                             [pos |-> pos1 + 1,
                              acc |-> Append(acc1, PlaceFiller(create_vent(1), pos1))])
            ELSE BuildSparse(h, equipment, i + 1, bottom_buffer_u, rack_size_u, available_u,
                             [pos |-> pos1, acc |-> acc1])

arrange_sparse_rack(h, equipment, remaining_space, bottom_buffer_u, rack_size_u, available_u) ==
    IF Len(equipment) = 0 THEN <<>>
    ELSE BuildSparse(h, equipment, 0, bottom_buffer_u, rack_size_u, available_u,
                     [pos |-> bottom_buffer_u + 1, acc |-> <<>>])

----------------------------------------------------------------------------
(* arrange_rack: what it computes.  raised is TRUE when the call would end *)
(* in ZeroDivisionError at `fill_ratio = total_equipment_u / available_u`. *)
(* The comparisons of fill_ratio with 0.85 and 0.5 are made in hundredths: *)
(* available_u is positive wherever they are evaluated.                    *)

fill_strategy_strict(total_u, available_u) ==
    IF 100 * total_u > TightPercent * available_u THEN "tight"
    ELSE IF 100 * total_u > ModeratePercent * available_u THEN "moderate"
    ELSE "sparse"

\* the branch taken on fill_ratio = total_u / available_u
fill_strategy(total_u, available_u) ==
    IF 100 * total_u >= TightPercent * available_u THEN "tight"
    ELSE IF 100 * total_u >= ModeratePercent * available_u THEN "moderate"
    ELSE "sparse"

arrange_rack(h, equipment, rack_size_u, top_buffer_u, bottom_buffer_u) ==
    IF equipment = <<>>
    THEN [raised |-> FALSE, strategy |-> "empty", final_items |-> <<>>]
    ELSE
    LET sorted == sorted_equipment(h, equipment)
        available_u == rack_size_u - top_buffer_u - bottom_buffer_u
        total_u == SumUnits(h, sorted, "all")
        remaining_space == available_u - total_u
        num_equipment_items == Len(sorted)
    IN IF remaining_space <= 0 \/ num_equipment_items = 0
       THEN [raised |-> FALSE, strategy |-> "no space",
             final_items |-> arrange_no_space(h, sorted, bottom_buffer_u + 1, <<>>)]
       ELSE IF available_u = 0
       THEN [raised |-> TRUE, strategy |-> "none", final_items |-> <<>>]
       ELSE IF fill_strategy(total_u, available_u) = "tight"
       THEN [raised |-> FALSE, strategy |-> "tight",
             final_items |-> arrange_tight_rack(h, sorted, remaining_space, bottom_buffer_u)]
       ELSE IF fill_strategy(total_u, available_u) = "moderate"
       THEN [raised |-> FALSE, strategy |-> "moderate",
             final_items |-> arrange_moderate_rack(h, sorted, remaining_space,
                                                   bottom_buffer_u, rack_size_u)]
       ELSE [raised |-> FALSE, strategy |-> "sparse",
             final_items |-> arrange_sparse_rack(h, sorted, remaining_space,
                                                 bottom_buffer_u, rack_size_u, available_u)]

RECURSIVE Commit(_, _)
\* the heap after the call: the positions assigned to the equipment objects
\* are written into them, the fillers created are new objects
Commit(h, placed) ==
    IF placed = <<>> THEN h
    ELSE LET p == Head(placed)
         IN Commit(IF p.ref = 0 THEN Append(h, p.item)
                   ELSE [h EXCEPT ![p.ref] = p.item],
                   Tail(placed))

RECURSIVE RefsOf(_, _)
\* layout.items: the references of the placed objects; n objects exist already
RefsOf(n, placed) ==
    IF placed = <<>> THEN <<>>
    ELSE IF Head(placed).ref = 0
         THEN <<n + 1>> \o RefsOf(n + 1, Tail(placed))
         ELSE <<Head(placed).ref>> \o RefsOf(n, Tail(placed))

Deref(h, refs) == [k \in 1..Len(refs) |-> h[refs[k]]]

\* A call of arrange_rack, whose caller then sets the layout's project_name.
\* The log keeps the arguments, the argument objects' values at the call, the
\* strategy the call took and the returned layout's items as they are at the
\* return.
ArrangeRackFor(project_name, equipment, rack_size_u, top_buffer_u, bottom_buffer_u) ==
    LET res == arrange_rack(heap, equipment, rack_size_u, top_buffer_u, bottom_buffer_u)
        call == [equipment |-> equipment, rack_size_u |-> rack_size_u,
                 top_buffer_u |-> top_buffer_u, bottom_buffer_u |-> bottom_buffer_u,
                 given |-> Deref(heap, equipment)]
    IN IF res.raised
       THEN /\ log' = Append(log, [call |-> call, outcome |-> "raised", layout |-> 0,
                                   strategy |-> res.strategy, items |-> <<>>])
            /\ UNCHANGED <<heap, layouts>>
       ELSE /\ heap' = Commit(heap, res.final_items)
            /\ layouts' = Append(layouts, [rack_size_u |-> rack_size_u,
                                           items |-> RefsOf(Len(heap), res.final_items),
                                           project_name |-> project_name])
            /\ log' = Append(log, [call |-> call, outcome |-> "returned",
                                   layout |-> Len(layouts) + 1,
                                   strategy |-> res.strategy,
                                   items |-> [k \in 1..Len(res.final_items) |->
                                                 res.final_items[k].item]])

\* A call of arrange_rack by itself: project_name keeps its default
ArrangeRack(equipment, rack_size_u, top_buffer_u, bottom_buffer_u) ==
    ArrangeRackFor("", equipment, rack_size_u, top_buffer_u, bottom_buffer_u)

----------------------------------------------------------------------------
(* Quantity expander *)

RECURSIVE Copies(_, _, _)
\* `for i in range(qty)`: one new RackItem per round; subsystem and position_u
\* are not passed to the constructor and take their defaults.  src is the
\* index of the input item the copy is made from.
Copies(item, qty, src) ==
    IF qty <= 0 THEN <<>>
    ELSE <<[src |-> src,
            item |-> RackItem(item.item_type, item.name, item.brand, item.model,
                              item.rack_units, item.weight, item.btu, 1, "")]>>
         \o Copies(item, qty - 1, src)

RECURSIVE expand_quantities(_, _, _)
\* expanded, from the k-th item of equipment on
expand_quantities(h, equipment, k) ==
    IF k > Len(equipment) THEN <<>>
    ELSE LET item == h[equipment[k]]
             qty == PyOr(item.quantity, 1)
         IN Copies(item, qty, k) \o expand_quantities(h, equipment, k + 1)

\* A call of expand_quantities: the copies are new objects.  The record keeps
\* the argument, the returned list and, for each returned item, the index of
\* the input item it is a copy of.
ExpandQuantities(equipment) ==
    LET out == expand_quantities(heap, equipment, 1)
    IN /\ heap' = heap \o [k \in 1..Len(out) |-> out[k].item]
       /\ expanded' = Append(expanded,
                             [equipment |-> equipment,
                              result |-> [k \in 1..Len(out) |-> Len(heap) + k],
                              src |-> [k \in 1..Len(out) |-> out[k].src]])
       /\ UNCHANGED <<layouts, log>>

----------------------------------------------------------------------------
(* Category splitter: generate_rack_docs.py (command line) and app.py (web) *)

\* str.lower() on the letters the inputs use
LowerCase ==
    [c \in {"A","B","C","D","E","F","G","H","I","J","K","L","M",
            "N","O","P","Q","R","S","T","U","V","W","X","Y","Z"} |->
        CASE c = "A" -> "a" [] c = "B" -> "b" [] c = "C" -> "c" [] c = "D" -> "d"
          [] c = "E" -> "e" [] c = "F" -> "f" [] c = "G" -> "g" [] c = "H" -> "h"
          [] c = "I" -> "i" [] c = "J" -> "j" [] c = "K" -> "k" [] c = "L" -> "l"
          [] c = "M" -> "m" [] c = "N" -> "n" [] c = "O" -> "o" [] c = "P" -> "p"
          [] c = "Q" -> "q" [] c = "R" -> "r" [] c = "S" -> "s" [] c = "T" -> "t"
          [] c = "U" -> "u" [] c = "V" -> "v" [] c = "W" -> "w" [] c = "X" -> "x"
          [] c = "Y" -> "y" [] c = "Z" -> "z"]

RECURSIVE lower(_)
lower(s) ==
    IF Len(s) = 0 THEN ""
    ELSE LET c == SubSeq(s, 1, 1)
         IN (IF c \in DOMAIN LowerCase THEN LowerCase[c] ELSE c)
            \o lower(SubSeq(s, 2, Len(s)))

\* `keyword in text`
In(keyword, text) ==
    \E i \in 1..(Len(text) - Len(keyword) + 1) :
        SubSeq(text, i, i + Len(keyword) - 1) = keyword

\* `any(k in text for k in keywords)`
AnyIn(keywords, text) == \E k \in keywords : In(k, text)

network_brands == {"ubiquiti", "pakedge", "araknis", "cisco", "netgear", "access networks"}
network_models == {"usw-", "udm-", "uap-", "an-", "ss42", "switch", "router", "gateway"}
av_brands == {"savant", "lutron", "sonance", "james", "anthem", "marantz", "denon",
              "crown", "bowers", "b&k", "b & k", "sonos", "control4"}
av_models == {"pav-", "ssc-", "svr-", "rck-", "rmb-", "cli-", "pkg-", "hqp", "hqr",
              "amp", "receiver", "processor"}

\* `(getattr(item, 'subsystem', None) or '').lower()`; '' stands for None too
subsystem_lower(item) == lower(item.subsystem)

\* the explicit tag names the network subsystem / the AV subsystem
TagNetwork(item) ==
    In("network", subsystem_lower(item)) \/ In("net", subsystem_lower(item))
TagAV(item) ==
    \/ In("av", subsystem_lower(item))
    \/ In("audio", subsystem_lower(item))
    \/ In("video", subsystem_lower(item))

is_network(item) ==
    \/ AnyIn(network_brands, lower(item.brand))
    \/ \E nm \in network_models : In(nm, lower(item.model)) \/ In(nm, lower(item.name))

is_av_brands_only(item) == AnyIn(av_brands, lower(item.brand))

is_av(item) ==
    \/ AnyIn(av_brands, lower(item.brand))
    \/ \E am \in av_models : In(am, lower(item.model)) \/ In(am, lower(item.name))

RECURSIVE split_loop_keywords_first(_, _, _, _)
split_loop_keywords_first(h, rack_items, av_items, network_items) ==
    IF rack_items = <<>> THEN [av_items |-> av_items, network_items |-> network_items]
    ELSE LET r == Head(rack_items)
             item == h[r]
         IN IF is_network(item) /\ ~is_av(item)
            THEN split_loop_keywords_first(h, Tail(rack_items), av_items,
                                           Append(network_items, r))
            ELSE IF is_av(item)
            THEN split_loop_keywords_first(h, Tail(rack_items), Append(av_items, r),
                                           network_items)
            ELSE IF TagNetwork(item)
            THEN split_loop_keywords_first(h, Tail(rack_items), av_items,
                                           Append(network_items, r))
            ELSE split_loop_keywords_first(h, Tail(rack_items), Append(av_items, r),
                                           network_items)

RECURSIVE split_loop_no_continue(_, _, _, _)
split_loop_no_continue(h, rack_items, av_items, network_items) ==
    IF rack_items = <<>> THEN [av_items |-> av_items, network_items |-> network_items]
    ELSE LET r == Head(rack_items)
             item == h[r]
             tagged == IF TagNetwork(item) THEN Append(network_items, r) ELSE network_items
         IN IF TagAV(item) /\ ~TagNetwork(item)
            THEN split_loop_no_continue(h, Tail(rack_items), Append(av_items, r), tagged)
            ELSE IF is_network(item) /\ ~is_av(item)
            THEN split_loop_no_continue(h, Tail(rack_items), av_items, Append(tagged, r))
            ELSE split_loop_no_continue(h, Tail(rack_items), Append(av_items, r), tagged)

RECURSIVE split_loop(_, _, _, _)
\* generate_rack_docs.py: the loop over rack_items; each round appends the
\* item's reference to one of the two lists
split_loop(h, rack_items, av_items, network_items) ==
    IF rack_items = <<>> THEN [av_items |-> av_items, network_items |-> network_items]
    ELSE LET r == Head(rack_items)
             item == h[r]
         IN IF TagNetwork(item)
            THEN split_loop(h, Tail(rack_items), av_items, Append(network_items, r))
            ELSE IF TagAV(item)
            THEN split_loop(h, Tail(rack_items), Append(av_items, r), network_items)
            ELSE IF is_network(item) /\ ~is_av(item)
            THEN split_loop(h, Tail(rack_items), av_items, Append(network_items, r))
            ELSE split_loop(h, Tail(rack_items), Append(av_items, r), network_items)

split_into_av_and_network_racks(h, rack_items) == split_loop(h, rack_items, <<>>, <<>>)

RECURSIVE app_split_loop(_, _, _, _)
\* app.py: the same loop; only the network keywords are looked for
app_split_loop(h, rack_items, av_items, network_items) ==
    IF rack_items = <<>> THEN [av_items |-> av_items, network_items |-> network_items]
    ELSE LET r == Head(rack_items)
             item == h[r]
         IN IF TagNetwork(item)
            THEN app_split_loop(h, Tail(rack_items), av_items, Append(network_items, r))
            ELSE IF TagAV(item)
            THEN app_split_loop(h, Tail(rack_items), Append(av_items, r), network_items)
            ELSE IF is_network(item)
            THEN app_split_loop(h, Tail(rack_items), av_items, Append(network_items, r))
            ELSE app_split_loop(h, Tail(rack_items), Append(av_items, r), network_items)

split_into_av_and_network(h, rack_items) == app_split_loop(h, rack_items, <<>>, <<>>)

FrontEnds == {"cli", "app"}

\* the splitter of a front end
Splitter(front, h, rack_items) ==
    IF front = "cli" THEN split_into_av_and_network_racks(h, rack_items)
    ELSE split_into_av_and_network(h, rack_items)

\* A call of a front end's splitter.  The record keeps the argument and the
\* two lists returned.
Split(front, rack_items) ==
    LET out == Splitter(front, heap, rack_items)
    IN /\ splits' = Append(splits, [front |-> front, rack_items |-> rack_items,
                                    av_items |-> out.av_items,
                                    network_items |-> out.network_items])
       /\ UNCHANGED <<heap, layouts, log, expanded>>

----------------------------------------------------------------------------
(* Enclosure capacities of a split: generate_split_racks and app.py *)

LargeRack == 48          \* generate_rack_docs.py:814, app.py:655
SplitVentMargin == 4     \* generate_rack_docs.py:813, app.py:655

\* rack_info as get_rack_info_from_csv returns it; 0 stands for None (no
\* enclosure of that kind in the CSV; a detected size is between 8 and 52)
NoRackInfo == [av_rack_size |-> 0, network_rack_size |-> 0]

\* av_u + (len(av_items) // 2)
av_u_with_vents(av_u, n_av) == av_u + (n_av \div 2)

\* av_rack_size of generate_split_racks
cli_av_rack_size(av_u, n_av, rack_size, rack_info) ==
    IF rack_info.av_rack_size # 0
    THEN IF av_u_with_vents(av_u, n_av) > rack_info.av_rack_size - SplitVentMargin
         THEN LargeRack
         ELSE rack_info.av_rack_size
    ELSE IF av_u_with_vents(av_u, n_av) > rack_size - SplitVentMargin
         THEN LargeRack
         ELSE rack_size

\* network_rack_size of generate_split_racks
cli_network_rack_size(rack_size, rack_info) ==
    IF rack_info.network_rack_size # 0 THEN rack_info.network_rack_size ELSE rack_size

\* av_rack_size of app.py; the network enclosure is given rack_size
app_av_rack_size(av_u, n_av, rack_size) ==
    IF av_u + (n_av \div 2) > rack_size - SplitVentMargin THEN LargeRack ELSE rack_size

\* the capacities a front end chooses for the two groups of a split
ChosenSizes(front, av_u, n_av, rack_size, rack_info) ==
    IF front = "cli"
    THEN [av_rack_size |-> cli_av_rack_size(av_u, n_av, rack_size, rack_info),
          network_rack_size |-> cli_network_rack_size(rack_size, rack_info)]
    ELSE [av_rack_size |-> app_av_rack_size(av_u, n_av, rack_size),
          network_rack_size |-> rack_size]

\* The capacities are chosen for a split whose groups have the given total
\* heights and item counts.  The record keeps the inputs and the choice.
ChooseSizes(front, rack_size, rack_info, av_u, n_av, net_u, n_net) ==
    sizing' = Append(sizing,
                     [front |-> front, rack_size |-> rack_size, rack_info |-> rack_info,
                      av_u |-> av_u, n_av |-> n_av, net_u |-> net_u, n_net |-> n_net]
                     @@ ChosenSizes(front, av_u, n_av, rack_size, rack_info))

----------------------------------------------------------------------------
(* The pipeline of a front end: main of generate_rack_docs.py (command line) *)
(* and generate_documents of app.py (web), from the enriched rack_items on   *)

OverflowMargin == 3      \* generate_rack_docs.py:754, app.py:651
DefaultBuffer == 1       \* rack_arranger.py:113
project == "Project"

should_split_no_margin(front, split_racks, rack_items, total_u, rack_size) ==
    IF front = "cli" THEN split_racks \/ total_u > rack_size
    ELSE rack_items # <<>> /\ total_u > rack_size

\* `if args.split_racks or total_u_needed > (args.rack_size - 3)`; the web
\* application has no split option and looks only `if rack_items`
should_split(front, split_racks, rack_items, total_u, rack_size) ==
    IF front = "cli" THEN split_racks \/ total_u > rack_size - OverflowMargin
    ELSE rack_items # <<>> /\ total_u > rack_size - OverflowMargin

\* total_u_needed of the pipeline's rack_items
total_u_needed == SumUnits(heap, pipe.rack_items, "all")

\* project_name of the layout of a group
GroupProject(front, group, size) ==
    IF front = "cli"
    THEN project \o " - " \o group \o " Rack (" \o ToString(size) \o "U)"
    ELSE project \o " - " \o group \o " Rack"

layouts_prepend(list, layout) == <<layout>> \o list

\* layouts.append(layout)
layouts_append(list, layout) == Append(list, layout)

\* rack_items = expand_quantities(rack_items)
PipeExpand ==
    /\ pipe.pc = "expand"
    /\ ExpandQuantities(pipe.rack_items)
    /\ pipe' = [pipe EXCEPT !.pc = "decide",
                            !.rack_items = expanded'[Len(expanded')].result]
    /\ UNCHANGED <<splits, runs, sizing>>

\* the split is taken: the splitter is called and the capacities are chosen
PipeSplit ==
    /\ pipe.pc = "decide"
    /\ should_split(pipe.front, pipe.split_racks, pipe.rack_items, total_u_needed,
                    pipe.rack_size)
    /\ Split(pipe.front, pipe.rack_items)
    /\ LET out == Splitter(pipe.front, heap, pipe.rack_items)
           av_u == SumUnits(heap, out.av_items, "all")
           net_u == SumUnits(heap, out.network_items, "all")
           sizes == ChosenSizes(pipe.front, av_u, Len(out.av_items), pipe.rack_size,
                                pipe.rack_info)
       IN /\ ChooseSizes(pipe.front, pipe.rack_size, pipe.rack_info,
                         av_u, Len(out.av_items), net_u, Len(out.network_items))
          /\ pipe' = [pipe EXCEPT !.pc = "av",
                                  !.av_items = out.av_items,
                                  !.network_items = out.network_items,
                                  !.av_rack_size = sizes.av_rack_size,
                                  !.network_rack_size = sizes.network_rack_size]
    /\ UNCHANGED runs

\* single rack mode: all the items are arranged in one enclosure
PipeSingle ==
    /\ pipe.pc = "decide"
    /\ ~should_split(pipe.front, pipe.split_racks, pipe.rack_items, total_u_needed,
                     pipe.rack_size)
    /\ pipe.front = "cli" \/ pipe.rack_items # <<>>
    /\ ArrangeRackFor(project, pipe.rack_items, pipe.rack_size, DefaultBuffer, DefaultBuffer)
    /\ pipe' = [pipe EXCEPT !.pc = "done",
                            !.out = layouts_append(pipe.out, Len(layouts'))]
    /\ UNCHANGED <<expanded, splits, runs, sizing>>

\* app.py: `if rack_items:` fails and no rack document is made
PipeNothing ==
    /\ pipe.pc = "decide"
    /\ pipe.front = "app" /\ pipe.rack_items = <<>>
    /\ pipe' = [pipe EXCEPT !.pc = "done"]
    /\ UNCHANGED <<heap, layouts, log, expanded, splits, runs, sizing>>

\* `if av_items:` the AV group is arranged and its layout appended
PipeArrangeAV ==
    /\ pipe.pc = "av"
    /\ IF pipe.av_items # <<>>
       THEN /\ ArrangeRackFor(GroupProject(pipe.front, "AV", pipe.av_rack_size),
                              pipe.av_items, pipe.av_rack_size,
                              DefaultBuffer, DefaultBuffer)
            /\ pipe' = [pipe EXCEPT !.pc = "network",
                                    !.out = layouts_append(pipe.out, Len(layouts'))]
       ELSE /\ pipe' = [pipe EXCEPT !.pc = "network"]
            /\ UNCHANGED <<heap, layouts, log>>
    /\ UNCHANGED <<expanded, splits, runs, sizing>>

\* `if network_items:` the network group is arranged and its layout appended
PipeArrangeNetwork ==
    /\ pipe.pc = "network"
    /\ IF pipe.network_items # <<>>
       THEN /\ ArrangeRackFor(GroupProject(pipe.front, "Network", pipe.network_rack_size),
                              pipe.network_items, pipe.network_rack_size,
                              DefaultBuffer, DefaultBuffer)
            /\ pipe' = [pipe EXCEPT !.pc = "done",
                                    !.out = layouts_append(pipe.out, Len(layouts'))]
       ELSE /\ pipe' = [pipe EXCEPT !.pc = "done"]
            /\ UNCHANGED <<heap, layouts, log>>
    /\ UNCHANGED <<expanded, splits, runs, sizing>>

----------------------------------------------------------------------------
(* arrange_rack step by step: the runs on the two groups of a split, side by *)
(* side on the one heap.  A step is what a run does up to and with its next  *)
(* writes: the sort, the totals and the strategy's preparation, one round of *)
(* the strategy's loop, the fill of the top with the return of the layout.   *)

\* a run on a group, about to start
NewRun(h, group, equipment, rack_size_u) ==
    [group |-> group, equipment |-> equipment, rack_size_u |-> rack_size_u,
     given |-> Deref(h, equipment),
     pc |-> IF equipment = <<>> THEN "skipped" ELSE "sort",
     sorted |-> <<>>, strategy |-> "none", available_u |-> 0,
     vent_positions |-> {}, vents_to_use |-> 0, blanks_for_top |-> 0,
     i |-> 0, current_position |-> 0, final_items |-> <<>>, out |-> 0]

current_position_shared(rs, t) ==
    Max(rs[1].current_position, rs[2].current_position)

\* current_position is a local of the strategy's call
current_position_of(rs, t) == rs[t].current_position

\* sorted_equipment = sorted(equipment, key=..., reverse=True)
RunSort(t) ==
    /\ runs[t].pc = "sort"
    /\ runs' = [runs EXCEPT ![t].pc = "plan",
                            ![t].sorted = sorted_equipment(heap, runs[t].equipment)]
    /\ UNCHANGED <<heap, layouts, log, expanded, splits, pipe, sizing>>

\* the totals, the choice of the strategy and what the strategy prepares
\* before its loop
RunPlan(t) ==
    /\ runs[t].pc = "plan"
    /\ LET run == runs[t]
           available_u == run.rack_size_u - DefaultBuffer - DefaultBuffer
           total_u == SumUnits(heap, run.sorted, "all")
           remaining_space == available_u - total_u
           num_items == Len(run.sorted)
           strategy == IF remaining_space <= 0 \/ num_items = 0 THEN "no space"
                       ELSE fill_strategy(total_u, available_u)
           vents_needed == IF num_items > 1 THEN num_items - 1 ELSE 0
       IN runs' = [runs EXCEPT
              ![t].pc = "place",
              ![t].strategy = strategy,
              ![t].available_u = available_u,
              ![t].current_position = DefaultBuffer + 1,
              ![t].vent_positions =
                  IF strategy = "tight"
                  THEN IntervalVents(0, num_items, 0, HotPositions(heap, run.sorted),
                                     Max(remaining_space, min_vents_needed(num_items)))
                  ELSE {},
              ![t].vents_to_use =
                  IF strategy = "moderate" THEN Min(vents_needed, remaining_space) ELSE 0,
              ![t].blanks_for_top =
                  IF strategy = "moderate"
                  THEN remaining_space - Min(vents_needed, remaining_space) ELSE 0]
    /\ UNCHANGED <<heap, layouts, log, expanded, splits, pipe, sizing>>

\* one round of the loop `for i, item in enumerate(equipment)` of the run's
\* strategy, from current_position: what it places, and where it ends
Round(h, run, current_position) ==
    LET i == run.i
        r == run.sorted[i + 1]
        num_items == Len(run.sorted)
        ideal == ideal_start(i, num_items, run.available_u, DefaultBuffer)
        spacers == IF run.strategy = "sparse"
                   THEN SpacersTo(ideal, current_position, <<>>) ELSE <<>>
        pos0 == IF run.strategy = "sparse" THEN Max(current_position, ideal)
                ELSE current_position
        pos1 == Advance(pos0, h[r])
        vent == CASE run.strategy = "tight" -> i \in run.vent_positions
                  [] run.strategy = "moderate" -> i < num_items - 1 /\ run.vents_to_use > 0
                  [] run.strategy = "sparse" -> /\ i < num_items - 1
                                                /\ PyOr(h[r].btu, 0) > SparseBtu
                                                /\ pos1 < run.rack_size_u
                  [] OTHER -> FALSE
    IN [placed |-> spacers \o <<PlaceEquipment(h, r, pos0)>>
                   \o (IF vent THEN <<PlaceFiller(create_vent(1), pos1)>> ELSE <<>>),
        current_position |-> IF vent THEN pos1 + 1 ELSE pos1,
        vents_to_use |-> IF vent /\ run.strategy = "moderate"
                         THEN run.vents_to_use - 1 ELSE run.vents_to_use]

\* a run takes one round of its loop: the item's position_u is written and
\* the fillers of the round are created
RunPlace(t) ==
    /\ runs[t].pc = "place"
    /\ runs[t].i < Len(runs[t].sorted)
    /\ LET round == Round(heap, runs[t], current_position_of(runs, t))
       IN /\ heap' = Commit(heap, round.placed)
          /\ runs' = [runs EXCEPT
                 ![t].i = @ + 1,
                 ![t].current_position = round.current_position,
                 ![t].vents_to_use = round.vents_to_use,
                 ![t].final_items = @ \o RefsOf(Len(heap), round.placed)]
    /\ UNCHANGED <<layouts, log, expanded, splits, pipe, sizing>>

\* after the loop: the strategy fills the top, arrange_rack returns the layout
RunFinish(t) ==
    /\ runs[t].pc = "place"
    /\ runs[t].i >= Len(runs[t].sorted)
    /\ LET run == runs[t]
           top == CASE run.strategy = "moderate" ->
                         BlanksForTop(run.blanks_for_top, run.current_position, <<>>)
                    [] run.strategy = "sparse" ->
                         FillTop(run.rack_size_u, run.current_position, <<>>)
                    [] OTHER -> <<>>
       IN /\ heap' = Commit(heap, top)
          /\ layouts' = Append(layouts,
                               [rack_size_u |-> run.rack_size_u,
                                items |-> run.final_items \o RefsOf(Len(heap), top),
                                project_name |->
                                    GroupProject("cli", run.group, run.rack_size_u)])
          /\ runs' = [runs EXCEPT ![t].pc = "done", ![t].out = Len(layouts) + 1]
    /\ UNCHANGED <<log, expanded, splits, pipe, sizing>>

\* generate_split_racks up to the two arrange_rack calls, which are started
\* as two runs
SplitAndStart(rack_size) ==
    /\ runs = <<>>
    /\ Split("cli", [k \in 1..Len(heap) |-> k])
    /\ LET out == Splitter("cli", heap, [k \in 1..Len(heap) |-> k])
           av_u == SumUnits(heap, out.av_items, "all")
           net_u == SumUnits(heap, out.network_items, "all")
           sizes == ChosenSizes("cli", av_u, Len(out.av_items), rack_size, NoRackInfo)
       IN /\ ChooseSizes("cli", rack_size, NoRackInfo,
                         av_u, Len(out.av_items), net_u, Len(out.network_items))
          /\ runs' = <<NewRun(heap, "AV", out.av_items, sizes.av_rack_size),
                       NewRun(heap, "Network", out.network_items, sizes.network_rack_size)>>
    /\ UNCHANGED pipe

----------------------------------------------------------------------------
(* Inputs *)

BtuValues == {0, 150, 300}
Buffers == {0, 1}
RackSizes == -1..MaxRack

\* equipment as the callers build it (generate_rack_docs.py:552): rack_units >= 1
Equipment(units, weights, btus, quantities, subsystems) ==
    {RackItem("equipment", "Amp", "Acme", "A1", u, w, b, q, s) :
        u \in units, w \in weights, b \in btus, q \in quantities, s \in subsystems}

SeqsUpTo(S, n) == UNION {[1..k -> S] : k \in 0..n}

\* the references of the equipment objects of the heap
EquipmentRefs == {r \in 1..Len(heap) : is_equipment(heap[r])}

\* the lists of distinct objects
ListsOf(refs, n) ==
    {s \in SeqsUpTo(refs, n) : \A i, j \in 1..Len(s) : i # j => s[i] # s[j]}

\* no splitter call, no pipeline and no side-by-side runs under way
Idle ==
    /\ splits = <<>>
    /\ pipe = [pc |-> "off"]
    /\ runs = <<>>
    /\ sizing = <<>>

----------------------------------------------------------------------------
(* Spec: one arrange_rack call on any equipment list, capacity and buffers *)

Init ==
    /\ heap \in SeqsUpTo(Equipment(1..MaxHeight, 0..MaxWeight, BtuValues, {1}, {""}), MaxItems)
    /\ layouts = <<>>
    /\ log = <<>>
    /\ expanded = <<>>
    /\ Idle

Arrange ==
    /\ Len(log) < 1
    /\ \E rack_size_u \in RackSizes, top_buffer_u \in Buffers, bottom_buffer_u \in Buffers :
          ArrangeRack([k \in 1..Len(heap) |-> k], rack_size_u, top_buffer_u, bottom_buffer_u)
    /\ UNCHANGED <<expanded, splits, pipe, runs, sizing>>

Next == Arrange

Spec == Init /\ [][Next]_vars

----------------------------------------------------------------------------
(* SpecReuse: arrange_rack called again, on lists that may hold objects an *)
(* earlier call has positioned                                             *)

ReuseRacks == {5, 9}

InitReuse ==
    /\ heap \in SeqsUpTo(Equipment(1..MaxHeight, 0..MaxWeight, {0}, {1}, {""}), MaxItems)
    /\ layouts = <<>>
    /\ log = <<>>
    /\ expanded = <<>>
    /\ Idle

ArrangeAgain ==
    /\ Len(log) < MaxCalls
    /\ \E equipment \in ListsOf(EquipmentRefs, MaxItems), rack_size_u \in ReuseRacks :
          ArrangeRack(equipment, rack_size_u, DefaultBuffer, DefaultBuffer)
    /\ UNCHANGED <<expanded, splits, pipe, runs, sizing>>

NextReuse == ArrangeAgain

SpecReuse == InitReuse /\ [][NextReuse]_vars

----------------------------------------------------------------------------
(* SpecExpand: one expand_quantities call on any list of catalog entries   *)

Subsystems == {"", "AV", "Network"}
MaxExpandItems == 2

InitExpand ==
    /\ heap \in SeqsUpTo(Equipment(1..MaxHeight, {1}, {0}, -1..MaxQuantity, Subsystems),
                         MaxExpandItems)
    /\ layouts = <<>>
    /\ log = <<>>
    /\ expanded = <<>>
    /\ Idle

Expand ==
    /\ Len(expanded) < 1
    /\ ExpandQuantities([k \in 1..Len(heap) |-> k])
    /\ UNCHANGED <<splits, pipe, runs, sizing>>

NextExpand == Expand

SpecExpand == InitExpand /\ [][NextExpand]_vars

----------------------------------------------------------------------------
(* SpecSplit: one splitter call of either front end on any list of products *)

MaxSplitItems == 2

Tags == {"", "Network", "AV", "Video Net", "Lighting"}
Brands == {"Acme", "Araknis", "Savant"}
Models == {"A1", "AN-310-SW", "SSC-0012", "Switch-AMP"}
Names == {"Unit", "Router"}

\* products as the front ends build them from the catalog
Products ==
    {RackItem("equipment", n, b, m, 1, 1, 0, 1, t) :
        n \in Names, b \in Brands, m \in Models, t \in Tags}

InitSplit ==
    /\ heap \in SeqsUpTo(Products, MaxSplitItems)
    /\ layouts = <<>>
    /\ log = <<>>
    /\ expanded = <<>>
    /\ Idle

SplitOnce ==
    /\ Len(splits) < 1
    /\ \E front \in FrontEnds : Split(front, [k \in 1..Len(heap) |-> k])
    /\ UNCHANGED <<pipe, runs, sizing>>

NextSplit == SplitOnce

SpecSplit == InitSplit /\ [][NextSplit]_vars

----------------------------------------------------------------------------
(* SpecSizes: the capacities chosen for the groups of any split             *)

MaxGroupItems == 25

\* --rack-size / the web form's rack size, the enclosure sizes found in a CSV
StandardSizes == {8, 42, 48, 52}
DetectedAV == {0, 42, 52}
DetectedNetwork == {0, 24}

\* item count and total height of a group of items of 1U or 2U
GroupShapes(counts) ==
    {g \in [n : counts, u : 0..(2 * MaxGroupItems)] : g.n <= g.u /\ g.u <= 2 * g.n}

RackInfos(front) ==
    IF front = "cli"
    THEN [av_rack_size : DetectedAV, network_rack_size : DetectedNetwork]
    ELSE {NoRackInfo}

InitSizes ==
    /\ heap = <<>>
    /\ layouts = <<>>
    /\ log = <<>>
    /\ expanded = <<>>
    /\ splits = <<>>
    /\ runs = <<>>
    /\ sizing = <<>>
    /\ \E front \in FrontEnds, rack_size \in StandardSizes :
       \E rack_info \in RackInfos(front) :
       \E av \in GroupShapes(0..MaxGroupItems), net \in GroupShapes({0, MaxGroupItems}) :
          pipe = [pc |-> "sizes", front |-> front, rack_size |-> rack_size,
                  rack_info |-> rack_info, av |-> av, net |-> net]

SizeGroups ==
    /\ pipe.pc = "sizes"
    /\ ChooseSizes(pipe.front, pipe.rack_size, pipe.rack_info,
                   pipe.av.u, pipe.av.n, pipe.net.u, pipe.net.n)
    /\ pipe' = [pipe EXCEPT !.pc = "sized"]
    /\ UNCHANGED <<heap, layouts, log, expanded, splits, runs>>

NextSizes == SizeGroups

SpecSizes == InitSizes /\ [][NextSizes]_vars

----------------------------------------------------------------------------
(* SpecPipe: a front end's pipeline on any list of catalog products          *)

MaxPipeProducts == 2

PipeTags == {"", "Network", "AV"}
PipeModels == {"A1", "AN-310-SW"}
PipeRackSizes == {8, 10}
PipeRackInfos == {NoRackInfo, [av_rack_size |-> 12, network_rack_size |-> 8]}

\* products as enrich_products_with_specs builds them; quantity is 1 at least
PipeProducts ==
    {RackItem("equipment", "Unit", "Acme", m, u, 1, 0, q, t) :
        m \in PipeModels, u \in 1..MaxHeight, q \in 1..MaxQuantity, t \in PipeTags}

\* the options of a run: --rack-size, --split-racks and the CSV's enclosures
\* on the command line, the form's rack size in the web application
PipeOptions ==
    [front : {"cli"}, rack_size : PipeRackSizes, split_racks : BOOLEAN,
     rack_info : PipeRackInfos]
    \cup [front : {"app"}, rack_size : PipeRackSizes, split_racks : {FALSE},
          rack_info : {NoRackInfo}]

InitPipe ==
    /\ heap \in SeqsUpTo(PipeProducts, MaxPipeProducts)
    /\ layouts = <<>>
    /\ log = <<>>
    /\ expanded = <<>>
    /\ splits = <<>>
    /\ runs = <<>>
    /\ sizing = <<>>
    /\ \E o \in PipeOptions :
          pipe = [pc |-> "expand", front |-> o.front, rack_size |-> o.rack_size,
                  split_racks |-> o.split_racks, rack_info |-> o.rack_info,
                  rack_items |-> [k \in 1..Len(heap) |-> k],
                  av_items |-> <<>>, network_items |-> <<>>,
                  av_rack_size |-> 0, network_rack_size |-> 0, out |-> <<>>]

NextPipe ==
    \/ PipeExpand
    \/ PipeSplit
    \/ PipeSingle
    \/ PipeNothing
    \/ PipeArrangeAV
    \/ PipeArrangeNetwork

SpecPipe == InitPipe /\ [][NextPipe]_vars

----------------------------------------------------------------------------
(* SpecParallel: the two runs of a split interleaved in every order of their *)
(* steps                                                                     *)

MaxParItems == 3

\* in a 9U enclosure a group of up to three items can take the tight, the
\* moderate and the sparse strategy
ParRackSizes == {9}
ParBtu == {0, 300}

\* items as the splitter gets them from expand_quantities: quantity 1, no tag
ParItems ==
    {RackItem("equipment", "Unit", "Acme", m, u, w, b, 1, "") :
        m \in PipeModels, u \in 1..MaxHeight, w \in 0..MaxWeight, b \in ParBtu}

InitParallel ==
    /\ heap \in SeqsUpTo(ParItems, MaxParItems)
    /\ layouts = <<>>
    /\ log = <<>>
    /\ expanded = <<>>
    /\ Idle

StartRuns == \E rack_size \in ParRackSizes : SplitAndStart(rack_size)

NextParallel ==
    \/ StartRuns
    \/ \E t \in 1..Len(runs) : RunSort(t)
    \/ \E t \in 1..Len(runs) : RunPlan(t)
    \/ \E t \in 1..Len(runs) : RunPlace(t)
    \/ \E t \in 1..Len(runs) : RunFinish(t)

SpecParallel == InitParallel /\ [][NextParallel]_vars

----------------------------------------------------------------------------
(* SpecDense: one arrange_rack call with the default buffers on lists long *)
(* enough for the vent interval of the tight strategy and for more gaps    *)
(* than free units in the moderate one                                     *)

DenseRacks == 3..MaxDenseRack
DenseBtu == {0, 300}

InitDense ==
    /\ heap \in SeqsUpTo(Equipment(1..MaxHeight, {1}, DenseBtu, {1}, {""}), MaxDenseItems)
    /\ layouts = <<>>
    /\ log = <<>>
    /\ expanded = <<>>
    /\ Idle

ArrangeDense ==
    /\ Len(log) < 1
    /\ \E rack_size_u \in DenseRacks :
          ArrangeRack([k \in 1..Len(heap) |-> k], rack_size_u, DefaultBuffer, DefaultBuffer)
    /\ UNCHANGED <<expanded, splits, pipe, runs, sizing>>

NextDense == ArrangeDense

SpecDense == InitDense /\ [][NextDense]_vars

----------------------------------------------------------------------------
(* SpecSparse: one arrange_rack call with the default buffers on a stack of *)
(* like 1U devices in a tall rack                                           *)

\* the racks that hold the tallest stack between the buffers
SparseRacks == (MaxSparseItems + 2 * DefaultBuffer)..MaxSparseRack
SparseKinds == Equipment({1}, {1}, {0, 150}, {1}, {""})

InitSparse ==
    /\ \E n \in 0..MaxSparseItems, item \in SparseKinds : heap = [k \in 1..n |-> item]
    /\ layouts = <<>>
    /\ log = <<>>
    /\ expanded = <<>>
    /\ Idle

ArrangeSparse ==
    /\ Len(log) < 1
    /\ \E rack_size_u \in SparseRacks :
          ArrangeRack([k \in 1..Len(heap) |-> k], rack_size_u, DefaultBuffer, DefaultBuffer)
    /\ UNCHANGED <<expanded, splits, pipe, runs, sizing>>

NextSparse == ArrangeSparse

SpecSparse == InitSparse /\ [][NextSparse]_vars

----------------------------------------------------------------------------
(* What the claims speak of *)

Returned == {k \in 1..Len(log) : log[k].outcome = "returned"}

RECURSIVE UnitsOf(_)
UnitsOf(items) ==
    IF items = <<>> THEN 0 ELSE Head(items).rack_units + UnitsOf(Tail(items))

\* total equipment height of the call's argument, and the units between the buffers
GivenUnits(e) == UnitsOf(e.call.given)
AvailableUnits(e) == e.call.rack_size_u - e.call.top_buffer_u - e.call.bottom_buffer_u
Overflows(e) == GivenUnits(e) > AvailableUnits(e)

\* the slot ranges [position_u, position_u + rack_units) of a and b meet
Overlap(a, b) ==
    /\ a.position_u < b.position_u + b.rack_units
    /\ b.position_u < a.position_u + a.rack_units

TopSlot(item) == item.position_u + item.rack_units - 1

\* freeUnits of the layout a call returned
FreeUnits(e) == remaining_u(heap, layouts[e.layout])

IndexIn(s, x) == CHOOSE k \in 1..Len(s) : s[k] = x

Unpositioned(items) == [k \in 1..Len(items) |-> [items[k] EXCEPT !.position_u = 0]]

\* the same capacity and buffers and, item by item, equal equipment (whatever
\* position_u an earlier call has left in the objects)
SameArguments(c, d) ==
    /\ c.rack_size_u = d.rack_size_u
    /\ c.top_buffer_u = d.top_buffer_u
    /\ c.bottom_buffer_u = d.bottom_buffer_u
    /\ Unpositioned(c.given) = Unpositioned(d.given)

\* how often the reference r occurs in the list s
Occurrences(s, r) == Cardinality({k \in 1..Len(s) : s[k] = r})

\* the splitter call sp has put the object r in just the primary (AV) group,
\* in just the secondary (network) group
InPrimary(sp, r) ==
    Occurrences(sp.av_items, r) = 1 /\ Occurrences(sp.network_items, r) = 0
InSecondary(sp, r) ==
    Occurrences(sp.network_items, r) = 1 /\ Occurrences(sp.av_items, r) = 0

\* the keywords a categoryTag is matched against
SecondaryTagWords == {"network", "net"}
PrimaryTagWords == {"av", "audio", "video"}

\* text holds one of the keywords, whatever the case of its letters
Mentions(text, keywords) == AnyIn(keywords, lower(text))

SecondaryTagged(item) == Mentions(item.subsystem, SecondaryTagWords)
PrimaryTagged(item) ==
    ~SecondaryTagged(item) /\ Mentions(item.subsystem, PrimaryTagWords)
Untagged(item) ==
    ~Mentions(item.subsystem, SecondaryTagWords \cup PrimaryTagWords)

\* the item's brand or model holds a network keyword; its brand, model or
\* name holds an AV keyword
SecondaryKeyword(item) ==
    Mentions(item.brand, network_brands) \/ Mentions(item.model, network_models)
PrimaryKeyword(item) ==
    \/ Mentions(item.brand, av_brands)
    \/ Mentions(item.model, av_models)
    \/ Mentions(item.name, av_models)
NoKeyword(item) ==
    /\ ~Mentions(item.brand, network_brands \cup av_brands)
    /\ ~Mentions(item.model, network_models \cup av_models)
    /\ ~Mentions(item.name, network_models \cup av_models)

\* the capacity a group of a split starts with: the enclosure size detected
\* for it, if any, or the pipeline's rack size
InitialAV(z) ==
    IF z.rack_info.av_rack_size # 0 THEN z.rack_info.av_rack_size ELSE z.rack_size
InitialNetwork(z) ==
    IF z.rack_info.network_rack_size # 0 THEN z.rack_info.network_rack_size ELSE z.rack_size

\* the group's equipment height plus floor(itemCount / 2) exceeds capacity - 4
NeedsUpgrade(units, count, capacity) == units + (count \div 2) > capacity - 4

\* the upgrade rule, of a group that starts with `initial` and gets `chosen`
UpgradeRule(units, count, initial, chosen) ==
    /\ IF NeedsUpgrade(units, count, initial) THEN chosen > initial ELSE chosen = initial
    /\ chosen >= initial

\* the calls the strategies are chosen for: a non-empty list that leaves
\* remainingUnits > 0
Dispatched(e) == e.call.given # <<>> /\ AvailableUnits(e) - GivenUnits(e) > 0

\* the calls that took the tight strategy
TightCalls == {k \in Returned : log[k].strategy = "tight"}

\* a hot item in the tight strategy's terms
Hot(item) == is_equipment(item) /\ item.btu > 200

\* items[i] is directly followed by a 1-unit vent that starts where it ends
VentFollows(items, i) ==
    /\ i < Len(items)
    /\ items[i + 1].item_type = "vent_1u"
    /\ items[i + 1].rack_units = 1
    /\ items[i + 1].position_u = items[i].position_u + items[i].rack_units

\* the pipeline has decided between one enclosure and a split; it has ended
Decided == pipe.pc \in {"av", "network", "done"}
Finished == pipe.pc = "done"

\* the Category Splitter has been invoked
SplitterInvoked == Len(splits) >= 1

\* the sum of the expanded equipment heights
ExpandedUnits == UnitsOf(Deref(heap, pipe.rack_items))

\* the layout with index idx is the one arrange_rack returned for the group
GroupLayout(idx, group_items) ==
    \E k \in Returned : log[k].layout = idx /\ log[k].call.equipment = group_items

\* the raw item the k-th expanded item of the pipeline is a copy of
RawItem(k) == heap[expanded[1].equipment[expanded[1].src[k]]]

\* the items, by value, of the layout arrange_rack returns for the group of a
\* run when it is called by itself on the items as the splitter gave them
AloneLayout(run) ==
    LET res == arrange_rack(run.given, [k \in 1..Len(run.given) |-> k],
                            run.rack_size_u, DefaultBuffer, DefaultBuffer)
    IN [k \in 1..Len(res.final_items) |-> res.final_items[k].item]

\* the runs that have returned their layout
DoneRuns == {t \in 1..Len(runs) : runs[t].pc = "done"}

\* the two groups share no item
Disjoint(a, b) == \A i \in 1..Len(a), j \in 1..Len(b) : a[i] # b[j]

\* remainingUnits of a call: the units between the buffers the equipment leaves
RemainingUnits(e) == AvailableUnits(e) - GivenUnits(e)

\* the vents and the blanks among the items of a layout
IsVent(item) == item.item_type \in {"vent_1u", "vent_2u"}
IsBlank(item) == item.item_type = "blank_1u"
VentCount(items) == Cardinality({k \in 1..Len(items) : IsVent(items[k])})
BlankCount(items) == Cardinality({k \in 1..Len(items) : IsBlank(items[k])})

\* the vent budget of the tight strategy for n items and the free units left
minimumVentsFromInterval(n) == Max(1, (n - 1) \div 3)
TightVentBudget(n, remaining) ==
    Min(Max(remaining, minimumVentsFromInterval(n)), n - 1)

\* the longest run of equipment items next to each other in list order
RECURSIVE LongestRun(_, _, _)
LongestRun(items, run, best) ==
    IF items = <<>> THEN Max(run, best)
    ELSE IF is_equipment(Head(items))
         THEN LongestRun(Tail(items), run + 1, best)
         ELSE LongestRun(Tail(items), 0, Max(run, best))

\* the calls packed without blanks: the tight strategy applies (fillRatio >=
\* 0.85) or there is no remaining space
PackedCalls ==
    {k \in Returned :
        \/ RemainingUnits(log[k]) <= 0
        \/ Dispatched(log[k]) /\ 100 * GivenUnits(log[k]) >= 85 * AvailableUnits(log[k])}

\* items[i] lies in a gap: directly between two equipment items
InGap(items, i) ==
    /\ 1 < i /\ i < Len(items)
    /\ is_equipment(items[i - 1]) /\ is_equipment(items[i + 1])

\* the calls the moderate strategy is chosen for: 0.5 <= fillRatio < 0.85
ModerateCalls ==
    {k \in Returned :
        /\ Dispatched(log[k])
        /\ 100 * GivenUnits(log[k]) < 85 * AvailableUnits(log[k])
        /\ 2 * GivenUnits(log[k]) >= AvailableUnits(log[k])}

\* the fillers above the topmost equipment item: the tail of the list
TopFillers(items) ==
    {i \in 1..Len(items) : \A j \in i..Len(items) : ~is_equipment(items[j])}

\* the calls the sparse strategy is chosen for: fillRatio < 0.5
SparseCalls ==
    {k \in Returned :
        Dispatched(log[k]) /\ 2 * GivenUnits(log[k]) < AvailableUnits(log[k])}

\* the index in the list of the layout's i-th equipment item (i from 0)
EquipmentIndex(items, i) ==
    CHOOSE p \in 1..Len(items) :
        /\ is_equipment(items[p])
        /\ Cardinality({q \in 1..(p - 1) : is_equipment(items[q])}) = i

\* the ideal start position of item i of n
IdealStart(e, i) ==
    e.call.bottom_buffer_u + 1 + ((i * AvailableUnits(e)) \div Len(e.call.given))

\* where the item before item i and its thermal vent end: the cursor when
\* item i is placed
EndOfPreceding(e, i) ==
    IF i = 0 THEN e.call.bottom_buffer_u + 1
    ELSE LET prev == e.items[EquipmentIndex(e.items, i - 1)]
         IN prev.position_u + prev.rack_units + (IF prev.btu > 100 THEN 1 ELSE 0)

\* a hot item in the sparse strategy's terms, with capacity left above it:
\* the cursor after the item is below capacityUnits
HotSparse(e, item) ==
    /\ is_equipment(item) /\ item.btu > 100
    /\ item.position_u + item.rack_units < e.call.rack_size_u

\* the index in the list of the topmost equipment item, the last one
LastEquipment(items) ==
    CHOOSE p \in 1..Len(items) :
        is_equipment(items[p]) /\ \A q \in (p + 1)..Len(items) : ~is_equipment(items[q])

\* the slots an item occupies
Slots(item) == item.position_u..TopSlot(item)

\* the slots reserved by the buffers of a call: the lowest bottom_buffer_u and
\* the highest top_buffer_u of 1..rack_size_u
BufferSlots(c) ==
    (1..c.bottom_buffer_u) \cup ((c.rack_size_u - c.top_buffer_u + 1)..c.rack_size_u)

\* the other front end
OtherFront(front) == IF front = "cli" THEN "app" ELSE "cli"

\* C1: in every layout arrange_rack returns, the slot ranges of any two
\* distinct items (equipment or filler) do not overlap.
C1_NoOverlap ==
    \A k \in Returned :
        \A i, j \in 1..Len(log[k].items) :
            i # j => ~Overlap(log[k].items[i], log[k].items[j])

\* a returned layout with a 2U equipment item, a filler above it and
\* another equipment item above the filler
C1_Witness ==
    \E k \in Returned :
        \E i, j, m \in 1..Len(log[k].items) :
            /\ i < j /\ j < m
            /\ is_equipment(log[k].items[i]) /\ log[k].items[i].rack_units = 2
            /\ ~is_equipment(log[k].items[j])
            /\ is_equipment(log[k].items[m])

\* C2: when the equipment fits (total height <= availableUnits), no item of
\* the returned layout protrudes above the top of the enclosure:
\* position + heightUnits - 1 <= capacityUnits.
C2_NothingProtrudes ==
    \A k \in Returned :
        ~Overflows(log[k]) =>
            \A i \in 1..Len(log[k].items) :
                TopSlot(log[k].items[i]) <= log[k].call.rack_size_u

\* C3: when the equipment fits, usedEquipmentUnits + usedFillerUnits <=
\* capacityUnits, i.e. freeUnits is not negative.
C3_UsedWithinCapacity ==
    \A k \in Returned :
        ~Overflows(log[k]) =>
            /\ total_equipment_u(heap, layouts[log[k].layout])
                  + total_vent_u(heap, layouts[log[k].layout]) <= log[k].call.rack_size_u
            /\ FreeUnits(log[k]) >= 0

\* C4: in every returned layout a heavier equipment item is at or below a
\* lighter one, and equipment of equal weight keeps its input order.
C4_WeightOrder ==
    \A k \in Returned :
        LET items == log[k].items
            refs == layouts[log[k].layout].items
            given == log[k].call.equipment
        IN \A i, j \in 1..Len(items) :
              (is_equipment(items[i]) /\ is_equipment(items[j])) =>
                 /\ items[i].weight > items[j].weight
                       => items[i].position_u <= items[j].position_u
                 /\ (/\ items[i].weight = items[j].weight
                     /\ IndexIn(given, refs[i]) < IndexIn(given, refs[j]))
                       => (i < j /\ items[i].position_u < items[j].position_u)

\* a returned layout in which the sort has moved a heavier item below a
\* lighter one given before it, with filler between them, and has kept two
\* items of equal weight in their input order
C4_Witness ==
    \E k \in Returned :
        LET items == log[k].items
            refs == layouts[log[k].layout].items
            given == log[k].call.equipment
        IN /\ \E i, j \in 1..Len(items) :
                /\ is_equipment(items[i]) /\ is_equipment(items[j])
                /\ items[i].weight > items[j].weight
                /\ IndexIn(given, refs[i]) > IndexIn(given, refs[j])
                /\ \E m \in 1..Len(items) : i < m /\ m < j /\ ~is_equipment(items[m])
           /\ \E i, j \in 1..Len(items) :
                /\ i < j
                /\ is_equipment(items[i]) /\ is_equipment(items[j])
                /\ items[i].weight = items[j].weight

\* C5 as stated: whenever the total equipment height exceeds availableUnits,
\* arrange_rack returns a layout and its freeUnits is negative (read here
\* for the engine's own precondition capacityUnits > 0 and some equipment).
C5_OverflowNegativeFree ==
    \A k \in 1..Len(log) :
        (/\ log[k].call.rack_size_u > 0
         /\ log[k].call.equipment # <<>>
         /\ Overflows(log[k]))
            => (log[k].outcome = "returned" /\ FreeUnits(log[k]) < 0)

\* C5 amended: whenever the total equipment height exceeds availableUnits,
\* arrange_rack returns a layout of the equipment alone; its freeUnits is
\* capacityUnits minus the total equipment height, negative exactly when
\* the total equipment height exceeds capacityUnits.
C5_OverflowFreeUnits ==
    \A k \in 1..Len(log) :
        Overflows(log[k]) =>
            /\ log[k].outcome = "returned"
            /\ Len(log[k].items) = Len(log[k].call.given)
            /\ FreeUnits(log[k]) = log[k].call.rack_size_u - GivenUnits(log[k])
            /\ (FreeUnits(log[k]) < 0 <=> GivenUnits(log[k]) > log[k].call.rack_size_u)

\* an overflowing call of two or more items whose layout has freeUnits >= 0
C5_Witness ==
    \E k \in Returned :
        /\ Overflows(log[k])
        /\ Len(log[k].items) >= 2
        /\ FreeUnits(log[k]) >= 0

\* C6: arrange_rack produces no layout when capacityUnits <= 0.
C6_RefusesNonPositiveCapacity ==
    \A k \in 1..Len(log) :
        log[k].call.rack_size_u <= 0 => log[k].outcome # "returned"

\* the copies expand_quantities made of the k-th item of its argument
CopiesOf(x, k) == {m \in 1..Len(x.result) : x.src[m] = k}

\* C7: expand_quantities returns, for each item with quantity q >= 1,
\* exactly q items, each with quantity 1 and every other field (name, brand,
\* model, heightUnits, weight, heatOutput, subsystem, kind) as the original.
C7_ExpandsToCopies ==
    \A n \in 1..Len(expanded) :
        LET x == expanded[n]
        IN \A k \in 1..Len(x.equipment) :
              LET orig == heap[x.equipment[k]]
              IN orig.quantity >= 1 =>
                   /\ Cardinality(CopiesOf(x, k)) = orig.quantity
                   /\ \A m \in CopiesOf(x, k) :
                         LET copy == heap[x.result[m]]
                         IN /\ copy.quantity = 1
                            /\ copy.name = orig.name
                            /\ copy.brand = orig.brand
                            /\ copy.model = orig.model
                            /\ copy.rack_units = orig.rack_units
                            /\ copy.weight = orig.weight
                            /\ copy.btu = orig.btu
                            /\ copy.subsystem = orig.subsystem
                            /\ copy.item_type = orig.item_type

\* C8: expand_quantities yields exactly one copy of an item whose quantity
\* is zero or negative.
C8_NonPositiveQuantityIsOne ==
    \A n \in 1..Len(expanded) :
        \A k \in 1..Len(expanded[n].equipment) :
            heap[expanded[n].equipment[k]].quantity <= 0
                => Cardinality(CopiesOf(expanded[n], k)) = 1

\* C9: a returned layout is immutable: the items of every layout returned
\* so far are as they were when it was returned, whatever calls followed.
C9_ReturnedLayoutImmutable ==
    \A k \in Returned :
        Deref(heap, layouts[log[k].layout].items) = log[k].items

\* C10: two arrange_rack calls with identical equipment list, capacity and
\* buffers yield identical layouts (same item sequence, kinds, positions),
\* also when the second call is given the objects the first has positioned.
C10_SameInputSameLayout ==
    \A j, k \in 1..Len(log) :
        SameArguments(log[j].call, log[k].call) =>
            /\ log[j].outcome = log[k].outcome
            /\ log[j].items = log[k].items

\* a second call on the very objects of a first call, which has left its
\* positions in them, with the same capacity; the layout holds filler
C10_Witness ==
    \E j, k \in Returned :
        /\ j < k
        /\ SameArguments(log[j].call, log[k].call)
        /\ log[j].call.equipment = log[k].call.equipment
        /\ Len(log[k].call.equipment) >= 2
        /\ \A i \in 1..Len(log[k].call.given) : log[k].call.given[i].position_u > 0
        /\ \E i \in 1..Len(log[k].items) : ~is_equipment(log[k].items[i])

\* C12: in the splitter an explicit category tag wins over inferred keywords:
\* an item whose subsystem tag matches a secondary keyword goes to the
\* secondary (network) group, otherwise an item whose tag matches a primary
\* keyword goes to the primary (AV) group, whatever brand, model and name hold.
C12_TagWins ==
    \A s \in 1..Len(splits) : \A k \in 1..Len(splits[s].rack_items) :
        LET r == splits[s].rack_items[k]
        IN /\ SecondaryTagged(heap[r]) => InSecondary(splits[s], r)
           /\ PrimaryTagged(heap[r]) => InPrimary(splits[s], r)

\* a command line split of an item tagged for the network whose brand and
\* model are AV keywords, and one tagged AV that is all network keywords
C12_Witness ==
    \E s \in 1..Len(splits) : \E j, k \in 1..Len(splits[s].rack_items) :
        LET a == heap[splits[s].rack_items[j]]
            b == heap[splits[s].rack_items[k]]
        IN /\ splits[s].front = "cli"
           /\ SecondaryTagged(a) /\ PrimaryKeyword(a) /\ ~SecondaryKeyword(a)
           /\ PrimaryTagged(b) /\ SecondaryKeyword(b) /\ ~PrimaryKeyword(b)

\* C13 as stated: in the splitter an item with no matching tag whose brand or
\* model contains a secondary (network) keyword is assigned to the secondary
\* group, also when its brand, model or name contain a primary keyword.
C13_NetworkKeywordSecondary ==
    \A s \in 1..Len(splits) : \A k \in 1..Len(splits[s].rack_items) :
        LET r == splits[s].rack_items[k]
        IN (Untagged(heap[r]) /\ SecondaryKeyword(heap[r])) => InSecondary(splits[s], r)

\* C13: an item with no matching tag whose brand or model contains a network
\* keyword is assigned to the secondary group by the web splitter always, and
\* by the command line splitter unless its brand, model or name also contain
\* an AV keyword; then the command line splitter assigns it to the primary group.
C13_NetworkKeywordUnlessAV ==
    \A s \in 1..Len(splits) : \A k \in 1..Len(splits[s].rack_items) :
        LET r == splits[s].rack_items[k]
        IN (Untagged(heap[r]) /\ SecondaryKeyword(heap[r])) =>
              IF splits[s].front = "cli" /\ PrimaryKeyword(heap[r])
              THEN InPrimary(splits[s], r)
              ELSE InSecondary(splits[s], r)

\* the command line splitter has had an untagged item with a network brand
\* and an AV model, and one with network keywords only
C13_Witness ==
    \E s \in 1..Len(splits) : \E j, k \in 1..Len(splits[s].rack_items) :
        LET a == heap[splits[s].rack_items[j]]
            b == heap[splits[s].rack_items[k]]
        IN /\ splits[s].front = "cli"
           /\ Untagged(a) /\ SecondaryKeyword(a) /\ PrimaryKeyword(a)
           /\ Untagged(b) /\ SecondaryKeyword(b) /\ ~PrimaryKeyword(b)

\* C14: the splitter never fails on an unclassifiable item: an item with no
\* tag whose brand, model and name match no keyword goes to the primary group,
\* an item tagged 'network' goes to the secondary group, and every input item
\* is in exactly one of the two groups.
C14_DefaultPrimaryAndPartition ==
    \A s \in 1..Len(splits) :
        /\ Len(splits[s].av_items) + Len(splits[s].network_items)
              = Len(splits[s].rack_items)
        /\ \A k \in 1..Len(splits[s].rack_items) :
            LET r == splits[s].rack_items[k]
            IN /\ InPrimary(splits[s], r) \/ InSecondary(splits[s], r)
               /\ (heap[r].subsystem = "" /\ NoKeyword(heap[r])) => InPrimary(splits[s], r)
               /\ lower(heap[r].subsystem) = "network" => InSecondary(splits[s], r)

\* a split of an item tagged for the network and an untagged item that no
\* keyword matches
C14_Witness ==
    \E s \in 1..Len(splits) : \E j, k \in 1..Len(splits[s].rack_items) :
        LET a == heap[splits[s].rack_items[j]]
            b == heap[splits[s].rack_items[k]]
        IN /\ lower(a.subsystem) = "network"
           /\ b.subsystem = "" /\ NoKeyword(b)
           /\ InSecondary(splits[s], splits[s].rack_items[j])
           /\ InPrimary(splits[s], splits[s].rack_items[k])

\* C16: in multi-enclosure orchestration, for each group: if the group's total
\* equipment height plus floor(itemCount / 2) exceeds capacity - 4, the group's
\* capacity is replaced by a strictly larger standard capacity, otherwise the
\* group keeps the given capacity; the chosen capacity is never smaller than
\* the capacity the group started with.
C16_UpgradeStrictlyLarger ==
    \A k \in 1..Len(sizing) :
        LET z == sizing[k]
        IN /\ UpgradeRule(z.av_u, z.n_av, InitialAV(z), z.av_rack_size)
           /\ UpgradeRule(z.net_u, z.n_net, InitialNetwork(z), z.network_rack_size)

\* C19: for every non-empty input with remainingUnits > 0, arrange_rack takes
\* exactly one strategy, fixed by fillRatio = totalEquipmentUnits /
\* availableUnits: tight iff fillRatio >= 0.85 (17/20), moderate iff
\* 0.5 <= fillRatio < 0.85, sparse iff fillRatio < 0.5; availableUnits is not 0
\* where the ratio is taken, so the call returns.
C19_StrategyByFillRatio ==
    \A k \in 1..Len(log) :
        LET e == log[k]
            total == GivenUnits(e)
            available == AvailableUnits(e)
        IN Dispatched(e) =>
              /\ available # 0
              /\ e.outcome = "returned"
              /\ e.strategy \in {"tight", "moderate", "sparse"}
              /\ e.strategy = "tight" <=> 20 * total >= 17 * available
              /\ e.strategy = "moderate" <=> (2 * total >= available /\ 20 * total < 17 * available)
              /\ e.strategy = "sparse" <=> 2 * total < available

\* a call whose fillRatio is exactly 0.5
C19_Witness ==
    \E k \in Returned :
        /\ Dispatched(log[k])
        /\ 2 * GivenUnits(log[k]) = AvailableUnits(log[k])
        /\ log[k].strategy = "moderate"

\* C20 as stated: in the tight strategy a 1-unit vent is placed immediately
\* after every equipment item whose heatOutput > 200; no such item is skipped,
\* whatever its index in the sorted order.
C20_VentAfterEveryHotItem ==
    \A k \in TightCalls : \A i \in 1..Len(log[k].items) :
        Hot(log[k].items[i]) => VentFollows(log[k].items, i)

\* C20: in the tight strategy a 1-unit vent is placed immediately after every
\* equipment item whose heatOutput > 200 except the last item of the sorted
\* order (the topmost one), after which nothing is placed; no other such item
\* is skipped, also when the vents exceed the remaining-space budget.
C20_VentAfterHotItemButLast ==
    \A k \in TightCalls :
        LET items == log[k].items
        IN /\ is_equipment(items[Len(items)])
           /\ \A i \in 1..(Len(items) - 1) : Hot(items[i]) => VentFollows(items, i)

\* a tight call of all hot items: the vents after them are more than the
\* remaining space, and the last item is hot as well
C20_Witness ==
    \E k \in TightCalls :
        LET items == log[k].items
            hot == {i \in 1..Len(items) : Hot(items[i])}
        IN /\ Hot(items[Len(items)])
           /\ Cardinality(hot) >= 3
           /\ Cardinality(hot) - 1 > AvailableUnits(log[k]) - GivenUnits(log[k])

\* C15: the pipeline invokes the Category Splitter exactly when the sum of the
\* expanded equipment heights exceeds capacityUnits - 3 or a split was
\* requested; otherwise it arranges all items in one enclosure, so a
\* single-enclosure arrangement is only invoked with total equipment height
\* <= capacityUnits - 3.
C15_SplitOnOverflowOrRequest ==
    Decided =>
        LET wanted == ExpandedUnits > pipe.rack_size - 3 \/ pipe.split_racks
        IN /\ SplitterInvoked <=> wanted
           /\ Len(splits) <= 1
           /\ (~wanted /\ pipe.rack_items # <<>>) =>
                 /\ Len(log) = 1
                 /\ log[1].call.equipment = pipe.rack_items
                 /\ log[1].call.rack_size_u = pipe.rack_size
           /\ ~SplitterInvoked =>
                 \A k \in 1..Len(log) : GivenUnits(log[k]) <= log[k].call.rack_size_u - 3

\* a pipeline that arranged one enclosure with the equipment at exactly
\* capacityUnits - 3
C15_Witness ==
    /\ Finished
    /\ ~SplitterInvoked
    /\ Len(log) = 1
    /\ GivenUnits(log[1]) = pipe.rack_size - 3

\* C17 as stated: whenever the splitter is used, the orchestration returns the
\* two layouts as an ordered pair, the primary (AV) layout first and the
\* secondary (network) layout second, also when one group is empty.  (Stated
\* of the splits of a non-empty item list.)
C17_OrderedPairAlways ==
    (Finished /\ SplitterInvoked /\ pipe.rack_items # <<>>) =>
        /\ Len(pipe.out) = 2
        /\ GroupLayout(pipe.out[1], pipe.av_items)
        /\ GroupLayout(pipe.out[2], pipe.network_items)

\* C17: whenever the splitter is used, the orchestration returns the layouts
\* of the non-empty groups, the primary (AV) layout before the secondary
\* (network) layout: an ordered pair when both groups are non-empty, the other
\* group's layout alone when one group is empty, nothing when both are.
C17_NonEmptyGroupsInOrder ==
    (Finished /\ SplitterInvoked) =>
        LET a == IF pipe.av_items # <<>> THEN 1 ELSE 0
            n == IF pipe.network_items # <<>> THEN 1 ELSE 0
        IN /\ Len(pipe.out) = a + n
           /\ a = 1 => GroupLayout(pipe.out[1], pipe.av_items)
           /\ n = 1 => GroupLayout(pipe.out[a + 1], pipe.network_items)

\* a finished split with both groups non-empty and two layouts
C17_Witness ==
    /\ Finished
    /\ SplitterInvoked
    /\ pipe.av_items # <<>>
    /\ pipe.network_items # <<>>
    /\ Len(pipe.out) = 2
    /\ pipe.out[1] # pipe.out[2]

\* C18: in the pipeline as wired (raw items, Quantity Expander, Category
\* Splitter) an item whose tag declares the secondary subsystem and whose
\* brand, model and name match no keyword ends up in the secondary group: its
\* copies are in the network group when the splitter has run.
C18_TagDecisiveAfterExpansion ==
    SplitterInvoked =>
        \A k \in 1..Len(expanded[1].result) :
            (SecondaryTagged(RawItem(k)) /\ NoKeyword(RawItem(k))) =>
                InSecondary(splits[1], expanded[1].result[k])

\* C11: two arrange_rack runs on the primary and the secondary group of a
\* split may be interleaved in any order of their steps: each resulting
\* layout is the one the run yields when the runs execute one after the
\* other; the groups share no item and the runs no state.
C11_InterleavedAsSequential ==
    /\ Len(runs) = 2 => Disjoint(runs[1].equipment, runs[2].equipment)
    /\ \A t \in DoneRuns :
          /\ Deref(heap, layouts[runs[t].out].items) = AloneLayout(runs[t])
          /\ layouts[runs[t].out].rack_size_u = runs[t].rack_size_u

\* both runs have returned, and the network run has created a filler between
\* two fillers of the AV run: the steps of the runs were interleaved
C11_Witness ==
    /\ DoneRuns = {1, 2}
    /\ LET av == layouts[runs[1].out].items
           net == layouts[runs[2].out].items
       IN \E i, j \in 1..Len(av) : \E k \in 1..Len(net) :
             /\ ~is_equipment(heap[av[i]])
             /\ ~is_equipment(heap[av[j]])
             /\ ~is_equipment(heap[net[k]])
             /\ av[i] < net[k]
             /\ net[k] < av[j]

\* C21: in the tight strategy the total number of vents inserted equals
\* max(remainingUnits, minimumVentsFromInterval) capped by the number of
\* equipment-to-equipment gaps n - 1, where minimumVentsFromInterval =
\* max(1, floor((n - 1) / 3)).
C21_TightVentTotal ==
    \A k \in TightCalls :
        VentCount(log[k].items) =
            TightVentBudget(Len(log[k].call.given), RemainingUnits(log[k]))

\* C22: in every tight layout there is at least one vent after every 3
\* consecutive equipment items: no run of more than 3 consecutive equipment
\* items without a vent between them occurs, also when thermal-driven vents
\* (heatOutput > 200) have been placed first.
C22_VentEveryThreeItems ==
    \A k \in TightCalls : LongestRun(log[k].items, 0, 0) <= vent_interval

\* C23: whenever the tight strategy applies (fillRatio >= 0.85) or there is no
\* remaining space (remainingUnits <= 0), the layout contains no blank panels:
\* all filler items are 1-unit vents, there is at most one vent per
\* equipment-to-equipment gap, and no filler is placed above the topmost
\* equipment item.
C23_PackedOnlyGapVents ==
    \A k \in PackedCalls :
        LET items == log[k].items
        IN \A i \in 1..Len(items) :
              ~is_equipment(items[i]) =>
                  /\ items[i].item_type = "vent_1u"
                  /\ items[i].rack_units = 1
                  /\ InGap(items, i)

\* a tight layout with a hot topmost item and vents in two gaps below it, and
\* a call with no remaining space
C23_Witness ==
    \E k \in PackedCalls :
        LET items == log[k].items
        IN /\ log[k].strategy = "tight"
           /\ VentCount(items) >= 2
           /\ Hot(items[Len(items)])

C23_WitnessNoSpace ==
    \E k \in PackedCalls : RemainingUnits(log[k]) <= 0 /\ Len(log[k].items) >= 2

\* C24: in the moderate strategy with n equipment items, exactly
\* min(n - 1, remainingUnits) 1-unit vents are inserted, each directly between
\* two consecutive equipment items; exactly remainingUnits minus that number
\* of 1-unit blanks are appended above the topmost equipment item; so the
\* layout occupies exactly availableUnits and freeUnits equals topBufferUnits
\* + bottomBufferUnits.
C24_ModerateVentsThenBlanks ==
    \A k \in ModerateCalls :
        LET e == log[k]
            items == e.items
            vents == Min(Len(e.call.given) - 1, RemainingUnits(e))
        IN /\ VentCount(items) = vents
           /\ BlankCount(items) = RemainingUnits(e) - vents
           /\ \A i \in 1..Len(items) :
                 /\ IsVent(items[i]) =>
                       /\ items[i].item_type = "vent_1u" /\ items[i].rack_units = 1
                       /\ InGap(items, i)
                 /\ IsBlank(items[i]) =>
                       items[i].rack_units = 1 /\ i \in TopFillers(items)
           /\ UnitsOf(items) = AvailableUnits(e)
           /\ FreeUnits(e) = e.call.top_buffer_u + e.call.bottom_buffer_u

\* a moderate layout with more gaps than free units: the vents run out before
\* the gaps do
C24_Witness ==
    \E k \in ModerateCalls :
        /\ Len(log[k].call.given) - 1 > RemainingUnits(log[k])
        /\ VentCount(log[k].items) = RemainingUnits(log[k])

\* a moderate layout with a vent in every gap and blanks on top
C24_WitnessBlanks ==
    \E k \in ModerateCalls :
        /\ Len(log[k].call.given) >= 3
        /\ VentCount(log[k].items) = Len(log[k].call.given) - 1
        /\ BlankCount(log[k].items) >= 2

\* C25: in the sparse strategy with n items, item i (0-based, in descending
\* weight order) is never placed below its ideal start position
\* bottomBufferUnits + 1 + floor(i * availableUnits / n), and is placed exactly
\* at it whenever the preceding item and its thermal vent end at or below that
\* position; every slot between the preceding item and item i is filled by a
\* 1-unit spacer.
C25_SparseIdealStart ==
    \A k \in SparseCalls :
        LET e == log[k]
            items == e.items
            n == Len(e.call.given)
        IN \A i \in 0..(n - 1) :
              LET p == EquipmentIndex(items, i)
                  first == IF i = 0 THEN 1 ELSE EquipmentIndex(items, i - 1) + 1
              IN /\ items[p].position_u >= IdealStart(e, i)
                 /\ EndOfPreceding(e, i) <= IdealStart(e, i) =>
                        items[p].position_u = IdealStart(e, i)
                 /\ \A q \in first..(p - 1) :
                        /\ ~is_equipment(items[q]) /\ items[q].rack_units = 1
                        /\ items[q + 1].position_u = items[q].position_u + 1

C27_BuffersReserved ==
    \A k \in Returned :
        ~Overflows(log[k]) =>
            \A i \in 1..Len(log[k].items) :
                Slots(log[k].items[i]) \cap BufferSlots(log[k].call) = {}

\* C28: in every non-empty layout returned by arrange_rack, the items in list
\* order occupy consecutive slots without holes: the first item's position is
\* bottomBufferUnits + 1 and every later item's position equals the previous
\* item's position plus the previous item's heightUnits (all strategies and
\* the overflow path).
C28_ConsecutiveSlots ==
    \A k \in Returned :
        LET items == log[k].items
        IN items # <<>> =>
              /\ items[1].position_u = log[k].call.bottom_buffer_u + 1
              /\ \A i \in 1..(Len(items) - 1) :
                    items[i + 1].position_u = items[i].position_u + items[i].rack_units

\* a layout of a 2U item, a filler and another item above them
C28_Witness ==
    \E k \in Returned :
        LET items == log[k].items
        IN /\ Len(items) >= 3
           /\ is_equipment(items[1]) /\ items[1].rack_units = 2
           /\ ~is_equipment(items[2])
           /\ \E i \in 3..Len(items) : is_equipment(items[i])

\* the overflow path: more equipment than availableUnits
C28_WitnessOverflow ==
    \E k \in Returned : Overflows(log[k]) /\ Len(log[k].items) >= 2

\* C29: every equipment item passed to arrange_rack appears exactly once in
\* the returned layout, with its heightUnits unchanged, in every strategy and
\* under overflow: nothing is dropped or duplicated, so usedEquipmentUnits
\* equals the sum of the input heights; an empty input yields an empty layout
\* with no filler and freeUnits = capacityUnits.
C29_EquipmentKept ==
    \A k \in Returned :
        LET e == log[k]
            layout == layouts[e.layout]
        IN /\ \A j \in 1..Len(e.call.equipment) :
                 /\ Occurrences(layout.items, e.call.equipment[j]) = 1
                 /\ heap[e.call.equipment[j]].rack_units = e.call.given[j].rack_units
           /\ \A i \in 1..Len(layout.items) :
                 is_equipment(heap[layout.items[i]]) =>
                     Occurrences(e.call.equipment, layout.items[i]) = 1
           /\ total_equipment_u(heap, layout) = GivenUnits(e)
           /\ e.call.given = <<>> =>
                 layout.items = <<>> /\ FreeUnits(e) = e.call.rack_size_u

\* a layout with fillers of three items that the sort has reordered
C29_Witness ==
    \E k \in Returned :
        LET e == log[k]
        IN /\ Len(e.call.given) = 3
           /\ layouts[e.layout].items[1] # e.call.equipment[1]
           /\ Len(e.items) > 3

\* the overflow path, and the empty input
C29_WitnessOverflow ==
    \E k \in Returned : Overflows(log[k]) /\ Len(log[k].call.given) = 3

C29_WitnessEmpty ==
    \E k \in Returned : log[k].call.given = <<>> /\ log[k].call.rack_size_u > 0

\* C30: the two splitter implementations (split_into_av_and_network_racks of
\* the command line and split_into_av_and_network of the web app) are
\* equivalent: for every item (any tag, brand, model, name) both assign it to
\* the same group, so the same equipment list is split identically by both
\* front ends.
C30_SplittersEquivalent ==
    \A s \in 1..Len(splits) :
        LET sp == splits[s]
            other == Splitter(OtherFront(sp.front), heap, sp.rack_items)
        IN /\ sp.av_items = other.av_items
           /\ sp.network_items = other.network_items

====
